---- MODULE Spec2Model ----
(***************************************************************************)
(* Conversational orchestration core of the TFG chatbot backend:           *)
(*   backend/logic/graph.py      GraphAgent (think / tool nodes / routing) *)
(*   backend/logic/testGraph.py  TestSessionGraph (interactive test)       *)
(*   backend/logic/tools/tools.py  the tools the nodes invoke              *)
(*   backend/api.py              /chat and /resume_chat                    *)
(*                                                                         *)
(* The compiled graph runs one node per step and writes the checkpoint of  *)
(* the session key after every node.  store[k] is the durable checkpoint   *)
(* of the parent graph (state values and the next node), sub[k] the        *)
(* checkpoint of the test_session subgraph while its node is pending.  The *)
(* subgraph works on its own copy of the shared keys; the parent receives  *)
(* them when the subgraph node completes (after finalize).                 *)
(***************************************************************************)
EXTENDS Integers, Sequences, FiniteSets, TLC

\* ---------------------------------------------------------------- bounds
MaxTurns == 2      \* call_agent calls issued per session key
MaxCalls == 2      \* model responses that request a tool, per session key
MaxResumes == 2    \* call_agent_resume calls issued per session key
MaxFaults == 1     \* collaborator failures (a raise) per session key
MaxQ == 2          \* largest num_questions the model asks for
MaxResults == 1    \* largest result list the RAG service returns
MaxRestarts == 1   \* process restarts, in the specification that has them

Keys == {"s1", "s2"}
Queries == {"hola"}
Subjects == {"iv"}
Answers == {"A", "B"}

NoneV == "None"
END == "END"
NoId == 0
Raise == -1      \* outcome: the collaborator raises
NoDoc == -3      \* outcome: the document store has no guia for the subject
NoJson == -2     \* outcome: the generator model answers without a JSON array

ToolNames == {"web_search", "get_guia", "rag_search", "generate_test"}

\* ------------------------------------------------------------- messages
\* Message contents are f-strings in the source; a content is kept as the
\* template's name with the values formatted into it.
Content(kind, text, a, b, c) ==
  [kind |-> kind, text |-> text, a |-> a, b |-> b, c |-> c]

Text(t) == Content("text", t, 0, 0, 0)

HumanMessage(content) ==
  [type |-> "human", content |-> content, tool_calls |-> <<>>, tool_call_id |-> NoId]

AIMessage(content, tool_calls) ==
  [type |-> "ai", content |-> content, tool_calls |-> tool_calls, tool_call_id |-> NoId]

ToolMessage(content, tool_call_id) ==
  [type |-> "tool", content |-> content, tool_calls |-> <<>>, tool_call_id |-> tool_call_id]

ToolCall(name, id, args) == [name |-> name, id |-> id, args |-> args]

Args(num_questions, asignatura) ==
  [topic |-> "tema", num_questions |-> num_questions, asignatura |-> asignatura]

Last(s) == s[Len(s)]

IsPrefix(s, t) == Len(s) <= Len(t) /\ SubSeq(t, 1, Len(s)) = s

\* A channel without reducer: the update overwrites the list.
add_messages_overwrite(left, right) == right

\* add_messages reducer of MessagesState: messages already in the list (same
\* id) stay where they are, new ones are appended.  Ids are positions here.
add_messages(left, right) == left \o right

\* --------------------------------------------------------------- state
\* SubjectState; the test fields are unset until a subgraph run returns them.
EmptyState ==
  [messages |-> <<>>, asignatura |-> NoneV, context |-> <<>>,
   topic |-> NoneV, num_questions |-> 0, difficulty |-> NoneV,
   questions |-> <<>>, current_question_index |-> 0,
   user_answers |-> <<>>, feedback_history |-> <<>>, scores |-> <<>>,
   has_test |-> FALSE]

\* TestSessionState: the keys the subgraph shares with the parent.
TestKeys ==
  {"messages", "topic", "num_questions", "difficulty", "questions",
   "current_question_index", "user_answers", "feedback_history", "scores",
   "has_test"}

SubInput(values) == [f \in TestKeys |-> values[f]]

NoInfo ==
  [action |-> NoneV, question_num |-> 0, total_questions |-> 0, question_text |-> NoneV]

NoResult ==
  [status |-> "none", messages |-> <<>>, interrupted |-> FALSE, interrupt_info |-> NoInfo]

ErrorResult ==
  [status |-> "error", messages |-> <<>>, interrupted |-> FALSE, interrupt_info |-> NoInfo]

VARIABLES
  store,     \* store[k]: parent checkpoint: exists, values, next node
  sub,       \* sub[k]: subgraph checkpoint: active, values, next node
  run,       \* run[k]: the request being served: active, pending resume value
  result,    \* result[k]: what the last call on k returned (ChatResponse)
  quota,     \* quota[k]: calls and tool requests still allowed by the bounds
  nextId,    \* nextId[k]: tool-call ids the model has issued so far
  turn,      \* turn[k]: history of the current call: kind, state before, nodes run
  session,   \* session[k]: history of the last test session started on k
  proc       \* the server process: _graph compiled or not, restarts still allowed,
             \* and the resume requests it serves side by side

vars == <<store, sub, run, result, quota, nextId, turn, session, proc>>

NoSession ==
  [started |-> FALSE, turn_no |-> 0, call_id |-> NoId, num_questions |-> 0,
   questions |-> <<>>, suspends |-> <<>>, resumes |-> 0, finalized |-> FALSE,
   evaluations |-> 0, outcome |-> NoneV, generations |-> 0,
   snap |-> [parent |-> EmptyState, child |-> SubInput(EmptyState)]]

\* turn[k].at is where the call found the key: "new" (no checkpoint), "done"
\* (nothing pending), "suspended" (halted in answer_question) or "pending" (a
\* node left to run by a failed call).
NoTurn ==
  [kind |-> "none", no |-> 0, pre |-> <<>>, path |-> <<>>, at |-> "new",
   index |-> 0, total |-> 0, generated |-> 0, finalized |-> FALSE, failed |-> FALSE,
   cold |-> FALSE]

\* Calls each client key may issue.
FullBudget ==
  [turns |-> MaxTurns, calls |-> MaxCalls, resumes |-> MaxResumes, faults |-> MaxFaults]

NoBudget == [turns |-> 0, calls |-> 0, resumes |-> 0, faults |-> 0]

\* One tool request, as many resumes as a session needs.
SmallBudget ==
  [turns |-> MaxTurns, calls |-> 1, resumes |-> MaxResumes, faults |-> MaxFaults]

\* Two clients: the first issues one turn and one resume, and may meet a
\* failure; the second issues one turn.
PairBudget ==
  [k \in Keys |->
     IF k = "s1" THEN [turns |-> 1, calls |-> 1, resumes |-> 1, faults |-> 1]
     ELSE [turns |-> 1, calls |-> 1, resumes |-> 0, faults |-> 0]]

\* Resume requests served at the same time; each works on the state it read
\* from the checkpoint when it started.
Requests == {"a", "b"}

IdleRequest ==
  [phase |-> "idle", key |-> NoneV, value |-> NoneV, resume |-> NoneV, index |-> 0,
   answered |-> FALSE, parent |-> EmptyState, child |-> SubInput(EmptyState),
   next |-> END]

\* The requests whose subgraph and parent checkpoint were written last.
NoWriter == [child |-> NoneV, parent |-> NoneV]

InitWith(budget, restarts) ==
  /\ store = [k \in Keys |-> [exists |-> FALSE, values |-> EmptyState, next |-> END]]
  /\ sub = [k \in Keys |-> [active |-> FALSE, values |-> SubInput(EmptyState), next |-> END]]
  /\ run = [k \in Keys |-> [active |-> FALSE, resume |-> NoneV]]
  /\ result = [k \in Keys |-> NoResult]
  /\ quota = budget
  /\ nextId = [k \in Keys |-> 0]
  /\ turn = [k \in Keys |-> NoTurn]
  /\ session = [k \in Keys |-> NoSession]
  /\ proc = [compiled |-> FALSE, restarts |-> restarts,
             requests |-> [r \in Requests |-> IdleRequest], last |-> NoWriter]

InitFor(clients) ==
  InitWith([k \in Keys |-> IF k \in clients THEN FullBudget ELSE NoBudget], 0)

Init == InitFor({"s1"})

\* ------------------------------------------------------- tools (tools.py)
Error(text) == Content("error", text, 0, 0, 0)

\* web_search tool: the DuckDuckGo wrapper answers or raises.
web_search_tool(outcome) ==
  IF outcome = Raise THEN Error("Error performing web search")
  ELSE Text("web results")

\* get_guia tool: no subject, MongoDB raises (Raise), no document (NoDoc), or
\* the summary.
get_guia_tool(asignatura, outcome) ==
  IF asignatura = NoneV THEN Text("No guia found for subject")
  ELSE IF outcome = Raise THEN Error("Error retrieving guia")
  ELSE IF outcome = NoDoc THEN Content("noguia", asignatura, 0, 0, 0)
  ELSE Content("guia", asignatura, 0, 0, 0)

RagDocs == <<"doc1", "doc2", "doc3">>
RagMeta == <<"meta1", "meta2", "meta3">>

\* _normalize_rag_results: one entry per raw result; a response without a
\* non-empty result list becomes a single entry holding str(data).
normalize_rag_results(n) ==
  IF n > 0 THEN [i \in 1..n |-> [content |-> RagDocs[i], metadata |-> RagMeta[i]]]
  ELSE << [content |-> "str(data)", metadata |-> "{}"] >>

\* rag_search tool: outcome is Raise (timeout, connection error, HTTP error)
\* or the number of results in the service's response.
rag_search_tool(outcome) ==
  IF outcome = Raise
  THEN [ok |-> FALSE, error |-> "Error contacting RAG service", results |-> <<>>]
  ELSE [ok |-> TRUE, error |-> NoneV, results |-> normalize_rag_results(outcome)]

RagOutcomes == {Raise} \cup (0..MaxResults)

GenQuestions == <<"Q1", "Q2", "Q3", "Q4">>
GenFallback == <<"P1", "P2", "P3", "P4">>

Take(s, n) == SubSeq(s, 1, IF n < Len(s) THEN n ELSE Len(s))

\* generate_test tool.  outcome Raise: the model call or json.loads
\* raised, one fallback question.  outcome NoJson: no JSON array in the
\* response, num_questions generic questions.  outcome j: a JSON array of j
\* questions, of which _create_test_objects keeps the first num_questions.
generate_test_tool(num_questions, outcome) ==
  IF outcome = Raise THEN << "QF" >>
  ELSE IF outcome = NoJson THEN Take(GenFallback, num_questions)
  ELSE Take(Take(GenQuestions, outcome), num_questions)

GenOutcomes == {Raise, NoJson} \cup (0..MaxQ)

\* ------------------------------------------------ parent graph (graph.py)
\* Routing on the last tool call of the message instead of the first.
should_continue_last(state) ==
  LET last_message == Last(state.messages) IN
    IF last_message.tool_calls # <<>>
    THEN last_message.tool_calls[Len(last_message.tool_calls)].name
    ELSE END

\* should_continue: the name of the first tool call of the last message.
should_continue(state) ==
  LET last_message == Last(state.messages) IN
    IF last_message.tool_calls # <<>> THEN last_message.tool_calls[1].name
    ELSE END

\* The path map of add_conditional_edges("agent", should_continue, ...).
Route(name) == IF name = "generate_test" THEN "test_session" ELSE name

\* What the model may answer: no tool call, one tool call, or (against the
\* prompt) two tool calls in one message.
CallShapes ==
  { << [name |-> "web_search", args |-> Args(0, NoneV)] >>,
    << [name |-> "rag_search", args |-> Args(0, NoneV)] >> }
  \cup { << [name |-> "get_guia", args |-> Args(0, a)] >> : a \in {NoneV, "os"} }
  \cup { << [name |-> "generate_test", args |-> Args(n, NoneV)] >> : n \in 0..MaxQ }
  \cup { << [name |-> "web_search", args |-> Args(0, NoneV)],
            [name |-> "generate_test", args |-> Args(1, NoneV)] >>,
         << [name |-> "generate_test", args |-> Args(1, NoneV)],
            [name |-> "web_search", args |-> Args(0, NoneV)] >> }

WithIds(shape, base) ==
  [i \in 1..Len(shape) |-> ToolCall(shape[i].name, base + i, shape[i].args)]

Returned(k, values, interrupted, info) ==
  [status |-> "ok", messages |-> values.messages, interrupted |-> interrupted,
   interrupt_info |-> info]

Visit(k, node) ==
  [turn[k] EXCEPT !.path = Append(@, node), !.failed = FALSE]

\* The key is halted at interrupt(): its last call returned the payload and
\* the subgraph waits in answer_question.
Suspended(k) ==
  /\ store[k].exists
  /\ store[k].next = "test_session"
  /\ sub[k].active
  /\ sub[k].next = "answer_question"
  /\ result[k].status = "ok"
  /\ result[k].interrupted

Position(k) ==
  IF ~store[k].exists THEN "new"
  ELSE IF store[k].next = END THEN "done"
  ELSE IF Suspended(k) THEN "suspended"
  ELSE "pending"

\* Every call on a key runs on one fixed thread, whatever the key.
thread_id_fixed(id) == "s1"

\* config = {"configurable": {"thread_id": id}}: the checkpoint a call works on.
thread_id(id) == id

\* call_agent with an input that also resets the progress of the test session.
CallAgent_resets(k, query, asignatura) ==
  /\ ~run[k].active
  /\ quota[k].turns > 0
  /\ quota' = [quota EXCEPT ![k].turns = @ - 1]
  /\ store' = [store EXCEPT ![thread_id(k)] =
        [exists |-> TRUE,
         values |-> [store[k].values EXCEPT
                       !.messages = add_messages(@, << HumanMessage(Text(query)) >>),
                       !.asignatura = asignatura,
                       !.context = <<>>,
                       !.current_question_index = 0,
                       !.user_answers = <<>>,
                       !.feedback_history = <<>>,
                       !.scores = <<>>],
         next |-> "agent"]]
  /\ sub' = [sub EXCEPT ![thread_id(k)].active = FALSE]
  /\ run' = [run EXCEPT ![k] = [active |-> TRUE, resume |-> NoneV]]
  /\ turn' = [turn EXCEPT ![k] =
        [kind |-> "advance", no |-> turn[k].no + 1, pre |-> store[k].values.messages,
         path |-> <<>>, at |-> Position(k), index |-> 0, total |-> 0, generated |-> 0,
         finalized |-> FALSE, failed |-> FALSE, cold |-> ~proc.compiled]]
  /\ result' = [result EXCEPT ![k] = NoResult]
  /\ proc' = [proc EXCEPT !.compiled = TRUE]
  /\ UNCHANGED <<nextId, session>>

\* call_agent: the input is applied to the checkpointed state (messages go
\* through add_messages, asignatura and context are overwritten), tasks left
\* pending by an earlier call are discarded, and the graph starts at "agent".
CallAgent(k, query, asignatura) ==
  /\ ~run[k].active
  /\ quota[k].turns > 0
  /\ quota' = [quota EXCEPT ![k].turns = @ - 1]
  /\ store' = [store EXCEPT ![thread_id(k)] =
        [exists |-> TRUE,
         values |-> [store[k].values EXCEPT
                       !.messages = add_messages(@, << HumanMessage(Text(query)) >>),
                       !.asignatura = asignatura,
                       !.context = <<>>],
         next |-> "agent"]]
  /\ sub' = [sub EXCEPT ![thread_id(k)].active = FALSE]
  /\ run' = [run EXCEPT ![k] = [active |-> TRUE, resume |-> NoneV]]
  /\ turn' = [turn EXCEPT ![k] =
        [kind |-> "advance", no |-> turn[k].no + 1, pre |-> store[k].values.messages,
         path |-> <<>>, at |-> Position(k), index |-> 0, total |-> 0, generated |-> 0,
         finalized |-> FALSE, failed |-> FALSE, cold |-> ~proc.compiled]]
  /\ result' = [result EXCEPT ![k] = NoResult]
  /\ proc' = [proc EXCEPT !.compiled = TRUE]
  /\ UNCHANGED <<nextId, session>>

\* call_agent_resume: Command(resume=value) on the key's checkpoint.  The
\* source adds no check of its own: with no checkpoint the runtime rejects
\* the input, with nothing pending it returns the stored state unchanged,
\* otherwise the pending node runs with the value at hand.
CallAgentResume(k, value) ==
  /\ ~run[k].active
  /\ quota[k].resumes > 0
  /\ quota' = [quota EXCEPT ![k].resumes = @ - 1]
  /\ turn' = [turn EXCEPT ![k] =
        [kind |-> "resume", no |-> turn[k].no, pre |-> store[k].values.messages,
         path |-> <<>>, at |-> Position(k),
         index |-> IF Suspended(k) THEN sub[k].values.current_question_index ELSE 0,
         total |-> IF Suspended(k) THEN sub[k].values.num_questions ELSE 0,
         generated |-> IF Suspended(k) THEN Len(sub[k].values.questions) ELSE 0,
         finalized |-> FALSE, failed |-> FALSE, cold |-> ~proc.compiled]]
  /\ proc' = [proc EXCEPT !.compiled = TRUE]
  /\ IF ~store[k].exists
     THEN /\ result' = [result EXCEPT ![k] = ErrorResult]
          /\ UNCHANGED <<run, session>>
     ELSE IF store[k].next = END
     THEN /\ result' = [result EXCEPT ![k] = Returned(k, store[k].values, FALSE, NoInfo)]
          /\ UNCHANGED <<run, session>>
     ELSE /\ run' = [run EXCEPT ![k] = [active |-> TRUE, resume |-> value]]
          /\ session' = [session EXCEPT ![k].resumes =
                            IF Suspended(k) THEN @ + 1 ELSE @]
          /\ result' = [result EXCEPT ![k] = NoResult]
  /\ UNCHANGED <<store, sub, nextId>>

\* think returning the system message together with the response.
think_with_system(state, response) ==
  << [HumanMessage(Text("system")) EXCEPT !.type = "system"], response >>

\* think: the update the node returns.  The system message goes to the model
\* only; the update holds the model's response and nothing else.
think(state, response) == << response >>

\* The agent node: think's update is merged, should_continue picks the next
\* node; a response without tool call ends the turn.
Think(k, shape) ==
  /\ run[k].active
  /\ store[k].next = "agent"
  /\ shape # <<>> => quota[k].calls > 0
  /\ LET response == IF shape = <<>> THEN AIMessage(Text("answer"), <<>>)
                     ELSE AIMessage(Text(""), WithIds(shape, nextId[k]))
         values == [store[k].values EXCEPT
                      !.messages = add_messages(@, think(store[k].values, response))]
         next == Route(should_continue(values))
     IN /\ store' = [store EXCEPT ![k].values = values, ![k].next = next]
        /\ IF next = END
           THEN /\ run' = [run EXCEPT ![k] = [active |-> FALSE, resume |-> NoneV]]
                /\ result' = [result EXCEPT ![k] = Returned(k, values, FALSE, NoInfo)]
           ELSE /\ run' = [run EXCEPT ![k].resume = NoneV]
                /\ UNCHANGED result
  /\ quota' = [quota EXCEPT ![k].calls = IF shape = <<>> THEN @ ELSE @ - 1]
  /\ nextId' = [nextId EXCEPT ![k] = @ + Len(shape)]
  /\ turn' = [turn EXCEPT ![k] = Visit(k, "agent")]
  /\ UNCHANGED <<sub, session, proc>>

\* A collaborator that raises uses up one of the failures the bounds allow.
Fault(k, failed) ==
  /\ failed => quota[k].faults > 0
  /\ quota' = [quota EXCEPT ![k].faults = IF failed THEN @ - 1 ELSE @]

\* think failing after part of its update was written.
ThinkRaise_partial(k) ==
  /\ run[k].active
  /\ store[k].next = "agent"
  /\ run' = [run EXCEPT ![k] = [active |-> FALSE, resume |-> NoneV]]
  /\ result' = [result EXCEPT ![k] = ErrorResult]
  /\ Fault(k, TRUE)
  /\ store' = [store EXCEPT ![k].values.messages =
                  add_messages(@, << AIMessage(Error("llm"), <<>>) >>)]
  /\ UNCHANGED <<sub, nextId, turn, session, proc>>

\* think when llm.invoke raises: nothing is caught, the call fails and the
\* checkpoint written after the previous node stays.
ThinkRaise(k) ==
  /\ run[k].active
  /\ store[k].next = "agent"
  /\ run' = [run EXCEPT ![k] = [active |-> FALSE, resume |-> NoneV]]
  /\ result' = [result EXCEPT ![k] = ErrorResult]
  /\ Fault(k, TRUE)
  /\ UNCHANGED <<store, sub, nextId, turn, session, proc>>

ToolNode(k, node, message, context, failed) ==
  /\ Fault(k, failed)
  /\ store' = [store EXCEPT ![k].values.messages = add_messages(@, << message >>),
                            ![k].values.context = context,
                            ![k].next = "agent"]
  /\ run' = [run EXCEPT ![k].resume = NoneV]
  /\ turn' = [turn EXCEPT ![k] =
        [Visit(k, node) EXCEPT !.failed = failed]]
  /\ UNCHANGED <<sub, result, nextId, session, proc>>

\* rag_search node: the tool's results are listed in the tool message and
\* their metadata appended to context; the edge leads back to "agent".
rag_search_content(rag_result) ==
  LET results == rag_result.results IN
    Content("chunks", "This is chunks of context:", Len(results),
            IF Len(results) > 0 /\ results[1].metadata = "{}" THEN 1 ELSE 0, 0)

\* rag_search whose appends to state["context"] do not reach the state.
RagSearch_update_only(k, outcome) ==
  /\ run[k].active
  /\ store[k].next = "rag_search"
  /\ LET state == store[k].values
         tool_calls == Last(state.messages).tool_calls
         rag_result == rag_search_tool(outcome)
     IN ToolNode(k, "rag_search",
                 ToolMessage(rag_search_content(rag_result), tool_calls[1].id),
                 state.context,
                 outcome = Raise)

RagSearch(k, outcome) ==
  /\ run[k].active
  /\ store[k].next = "rag_search"
  /\ LET state == store[k].values
         tool_calls == Last(state.messages).tool_calls
         rag_result == rag_search_tool(outcome)
         results == rag_result.results
     IN ToolNode(k, "rag_search",
                 ToolMessage(rag_search_content(rag_result), tool_calls[1].id),
                 state.context \o [i \in 1..Len(results) |-> results[i].metadata],
                 outcome = Raise)

\* get_guia node: args["asignatura"] is set from the state before the call.
get_guia_args(state, args) == [args EXCEPT !.asignatura = state.asignatura]

GetGuia(k, outcome) ==
  /\ run[k].active
  /\ store[k].next = "get_guia"
  /\ LET state == store[k].values
         tool_calls == Last(state.messages).tool_calls
         args == get_guia_args(state, tool_calls[1].args)
     IN ToolNode(k, "get_guia",
                 ToolMessage(get_guia_tool(args.asignatura, outcome), tool_calls[1].id),
                 state.context,
                 outcome = Raise /\ args.asignatura # NoneV)

\* web_search with an edge to END: the turn returns the tool's message.
WebSearch_ends(k, outcome) ==
  /\ run[k].active
  /\ store[k].next = "web_search"
  /\ Fault(k, outcome = Raise)
  /\ LET state == store[k].values
         tool_calls == Last(state.messages).tool_calls
         values == [state EXCEPT !.messages =
                      add_messages(@, << ToolMessage(web_search_tool(outcome),
                                                     tool_calls[1].id) >>)]
     IN /\ store' = [store EXCEPT ![k].values = values, ![k].next = END]
        /\ result' = [result EXCEPT ![k] = Returned(k, values, FALSE, NoInfo)]
  /\ run' = [run EXCEPT ![k] = [active |-> FALSE, resume |-> NoneV]]
  /\ turn' = [turn EXCEPT ![k] = [Visit(k, "web_search") EXCEPT !.failed = outcome = Raise]]
  /\ UNCHANGED <<sub, nextId, session, proc>>

WebSearch(k, outcome) ==
  /\ run[k].active
  /\ store[k].next = "web_search"
  /\ LET state == store[k].values
         tool_calls == Last(state.messages).tool_calls
     IN ToolNode(k, "web_search",
                 ToolMessage(web_search_tool(outcome), tool_calls[1].id),
                 state.context,
                 outcome = Raise)

ToolOutcomes == {Raise, 0}
GuiaOutcomes == {Raise, NoDoc, 0}

\* ------------------------------------------- test subgraph (testGraph.py)
MCQ(text) == [question_text |-> text]

EvalOutcomes == {"raise", "yes_feedback", "no_feedback", "neither"}

fallback_feedback(user_answer) ==
  IF user_answer = "A" THEN "Recibi tu respuesta: 'A'. Continuemos!"
  ELSE "Recibi tu respuesta: 'B'. Continuemos!"

\* evaluate_answer_with_llm: is_correct is whether the response holds
\* "CORRECT: YES"; feedback is what follows "FEEDBACK:" or else the whole
\* response; when the model call raises, the fallback, counted correct.
evaluate_answer_with_llm(user_answer, outcome) ==
  IF outcome = "raise"
  THEN [feedback |-> fallback_feedback(user_answer), is_correct |-> TRUE]
  ELSE [feedback |-> IF outcome \in {"yes_feedback", "no_feedback"} THEN "Bien hecho"
                     ELSE IF outcome = "yes_only" THEN "CORRECT: YES"
                     ELSE "no se",
        is_correct |-> outcome \in {"yes_feedback", "yes_only"}]

\* initialize_test leaving the answers, feedback and scores it finds.
initialize_test_keep(state, outcome) ==
  LET tool_calls == Last(state.messages).tool_calls
      args == tool_calls[1].args
      questions == generate_test_tool(args.num_questions, outcome)
  IN IF tool_calls = <<>> THEN state
     ELSE [state EXCEPT
             !.topic = args.topic,
             !.num_questions = args.num_questions,
             !.difficulty = NoneV,
             !.questions = [i \in 1..Len(questions) |-> MCQ(questions[i])],
             !.current_question_index = 0,
             !.has_test = TRUE]

\* initialize_test: the update returned for the pending generate_test call.
initialize_test(state, outcome) ==
  LET tool_calls == Last(state.messages).tool_calls
      args == tool_calls[1].args
      questions == generate_test_tool(args.num_questions, outcome)
  IN IF tool_calls = <<>> THEN state
     ELSE [state EXCEPT
             !.topic = args.topic,
             !.num_questions = args.num_questions,
             !.difficulty = NoneV,
             !.questions = [i \in 1..Len(questions) |-> MCQ(questions[i])],
             !.current_question_index = 0,
             !.user_answers = <<>>,
             !.feedback_history = <<>>,
             !.scores = <<>>,
             !.has_test = TRUE]

\* present_question consuming the question it presents.
present_question_pop(state) ==
  LET idx == state.current_question_index
      questions == state.questions
  IN IF questions = <<>> \/ idx >= Len(questions) THEN state
     ELSE [state EXCEPT
             !.questions = Tail(@),
             !.messages =
               add_messages(@, << AIMessage(Text(questions[idx + 1].question_text), <<>>) >>)]

\* present_question: the question's text as an AIMessage, or no update when
\* there is no question at the index.
present_question(state) ==
  LET idx == state.current_question_index
      questions == state.questions
  IN IF questions = <<>> \/ idx >= Len(questions) THEN state
     ELSE [state EXCEPT !.messages =
             add_messages(@, << AIMessage(Text(questions[idx + 1].question_text), <<>>) >>)]

\* answer_question, safety branch: no question at the index.
answer_question_invalid(state) ==
  state.questions = <<>> \/ state.current_question_index >= Len(state.questions)

\* The safety branch moving the index to the end of the question list.
answer_question_error_len(state) ==
  [state EXCEPT
     !.current_question_index = Len(state.questions),
     !.messages = add_messages(@, << AIMessage(Error("Error en la sesion de preguntas. Finalizando..."), <<>>) >>)]

answer_question_error(state) ==
  [state EXCEPT
     !.current_question_index = state.num_questions,
     !.messages = add_messages(@, << AIMessage(Error("Error en la sesion de preguntas. Finalizando..."), <<>>) >>)]

\* The payload numbering questions from 0.
interrupt_payload_zero_based(state) ==
  LET idx == state.current_question_index IN
    [action |-> "answer_question",
     question_num |-> idx,
     total_questions |-> state.num_questions,
     question_text |-> state.questions[idx + 1].question_text]

\* answer_question, the payload handed to interrupt().
interrupt_payload(state) ==
  LET idx == state.current_question_index IN
    [action |-> "answer_question",
     question_num |-> idx + 1,
     total_questions |-> state.num_questions,
     question_text |-> state.questions[idx + 1].question_text]

\* answer_question recording the answer without moving to the next question.
answer_question_stuck(state, user_answer, outcome) ==
  LET idx == state.current_question_index
      evaluation == evaluate_answer_with_llm(user_answer, outcome)
      feedback_msg == Content("feedback", evaluation.feedback, idx,
                              state.num_questions,
                              IF evaluation.is_correct THEN 1 ELSE 0)
  IN [state EXCEPT
        !.user_answers = Append(@, user_answer),
        !.feedback_history = Append(@, evaluation.feedback),
        !.scores = Append(@, evaluation.is_correct),
        !.messages = add_messages(@, << HumanMessage(Text(user_answer)),
                                        AIMessage(feedback_msg, <<>>) >>)]

\* answer_question appending the feedback before the user's answer.
answer_question_swapped(state, user_answer, outcome) ==
  LET idx == state.current_question_index
      evaluation == evaluate_answer_with_llm(user_answer, outcome)
      updated_index == idx + 1
      feedback_msg == Content("feedback", evaluation.feedback, updated_index,
                              state.num_questions,
                              IF evaluation.is_correct THEN 1 ELSE 0)
  IN [state EXCEPT
        !.user_answers = Append(@, user_answer),
        !.feedback_history = Append(@, evaluation.feedback),
        !.scores = Append(@, evaluation.is_correct),
        !.current_question_index = updated_index,
        !.messages = add_messages(@, << AIMessage(feedback_msg, <<>>),
                                        HumanMessage(Text(user_answer)) >>)]

\* answer_question, after interrupt() returned the user's answer.
answer_question(state, user_answer, outcome) ==
  LET idx == state.current_question_index
      evaluation == evaluate_answer_with_llm(user_answer, outcome)
      updated_index == idx + 1
      feedback_msg == Content("feedback", evaluation.feedback, updated_index,
                              state.num_questions,
                              IF evaluation.is_correct THEN 1 ELSE 0)
  IN [state EXCEPT
        !.user_answers = Append(@, user_answer),
        !.feedback_history = Append(@, evaluation.feedback),
        !.scores = Append(@, evaluation.is_correct),
        !.current_question_index = updated_index,
        !.messages = add_messages(@, << HumanMessage(Text(user_answer)),
                                        AIMessage(feedback_msg, <<>>) >>)]

\* test_router finalizing one question early.
test_router_early(state) ==
  IF state.current_question_index + 1 < state.num_questions THEN "continue"
  ELSE "finalize"

\* test_router
test_router(state) ==
  IF state.current_question_index < state.num_questions THEN "continue"
  ELSE "finalize"

TestEdge(choice) == IF choice = "continue" THEN "present_question" ELSE "finalize"

RECURSIVE CountTrue(_)
CountTrue(s) ==
  IF s = <<>> THEN 0
  ELSE (IF s[1] THEN 1 ELSE 0) + CountTrue(Tail(s))

\* f"{percentage:.0f}" of (score / total) * 100: rounded to the nearest
\* integer, ties to the even one.
Percentage(score, total) ==
  IF total > 0
  THEN LET q == (100 * score) \div total
           r == (100 * score) % total
       IN IF 2 * r > total \/ (2 * r = total /\ q % 2 = 1) THEN q + 1 ELSE q
  ELSE 0

\* finalize_test: the id of the first tool call of the last message that has
\* tool calls.
RECURSIVE LastWithToolCalls(_)
LastWithToolCalls(messages) ==
  IF messages = <<>> THEN 0
  ELSE IF Last(messages).tool_calls # <<>> THEN Len(messages)
  ELSE LastWithToolCalls(SubSeq(messages, 1, Len(messages) - 1))

UnknownId == -1

\* The id searched from the start of the history instead of its end.
finalize_tool_call_id_first(messages) ==
  LET with_calls == {i \in DOMAIN messages : messages[i].tool_calls # <<>>} IN
    IF with_calls = {} THEN UnknownId
    ELSE messages[CHOOSE i \in with_calls : \A j \in with_calls : i <= j].tool_calls[1].id

finalize_tool_call_id(messages) ==
  LET i == LastWithToolCalls(messages) IN
    IF i = 0 THEN UnknownId ELSE messages[i].tool_calls[1].id

\* The score counting every answer given, correct or not.
finalize_test_count_all(state) ==
  LET score == Len(state.scores)
      total == state.num_questions
      summary == Content("summary", state.topic, score, total, Percentage(score, total))
  IN [state EXCEPT !.messages =
        add_messages(@, << ToolMessage(summary, finalize_tool_call_id(state.messages)) >>)]

finalize_test(state) ==
  LET score == CountTrue(state.scores)
      total == state.num_questions
      summary == Content("summary", state.topic, score, total, Percentage(score, total))
  IN [state EXCEPT !.messages =
        add_messages(@, << ToolMessage(summary, finalize_tool_call_id(state.messages)) >>)]

\* What the parent receives when the subgraph node completes: every key of
\* the subgraph's state; through add_messages the messages the parent already
\* holds are kept and the subgraph's new ones appended.
SubgraphOutput(parent, child) ==
  [f \in DOMAIN parent |->
     IF f = "messages"
       THEN add_messages(parent.messages,
                         SubSeq(child.messages, Len(parent.messages) + 1, Len(child.messages)))
     ELSE IF f \in TestKeys THEN child[f]
     ELSE parent[f]]

InSubgraph(k, node) ==
  /\ run[k].active
  /\ store[k].next = "test_session"
  /\ sub[k].active
  /\ sub[k].next = node

\* Entry of the test_session node on a fresh task: the subgraph starts from
\* the parent's values and runs initialize_test.
InitializeTest(k, outcome) ==
  /\ run[k].active
  /\ store[k].next = "test_session"
  /\ ~sub[k].active
  /\ LET input == SubInput(store[k].values)
         call == Last(input.messages).tool_calls[1]
         values == initialize_test(input, outcome)
     IN /\ sub' = [sub EXCEPT ![k] =
              [active |-> TRUE, values |-> values, next |-> "present_question"]]
        /\ session' = [session EXCEPT ![k] =
              [started |-> TRUE, turn_no |-> turn[k].no, call_id |-> call.id,
               num_questions |-> values.num_questions,
               questions |-> values.questions, suspends |-> <<>>,
               resumes |-> 0, finalized |-> FALSE, evaluations |-> 0,
               outcome |-> NoneV,
               generations |-> IF session[k].started /\ session[k].call_id = call.id
                               THEN session[k].generations + 1 ELSE 1,
               snap |-> NoSession.snap]]
  /\ run' = [run EXCEPT ![k].resume = NoneV]
  /\ turn' = [turn EXCEPT ![k] = Visit(k, "initialize_test")]
  /\ Fault(k, outcome = Raise)
  /\ UNCHANGED <<store, result, nextId, proc>>

PresentQuestion(k) ==
  /\ InSubgraph(k, "present_question")
  /\ sub' = [sub EXCEPT ![k].values = present_question(@), ![k].next = "answer_question"]
  /\ run' = [run EXCEPT ![k].resume = NoneV]
  /\ turn' = [turn EXCEPT ![k] = Visit(k, "present_question")]
  /\ UNCHANGED <<store, result, quota, nextId, session, proc>>

\* answer_question without a question at the index: the error update, then
\* test_router.
AnswerQuestionError(k) ==
  /\ InSubgraph(k, "answer_question")
  /\ answer_question_invalid(sub[k].values)
  /\ LET values == answer_question_error(sub[k].values) IN
       sub' = [sub EXCEPT ![k].values = values, ![k].next = TestEdge(test_router(values))]
  /\ run' = [run EXCEPT ![k].resume = NoneV]
  /\ turn' = [turn EXCEPT ![k] = Visit(k, "answer_question")]
  /\ UNCHANGED <<store, result, quota, nextId, session, proc>>

\* answer_question reaching interrupt() with no resume value: the graph
\* halts on this node and the call returns the payload.
Interrupt(k) ==
  /\ InSubgraph(k, "answer_question")
  /\ ~answer_question_invalid(sub[k].values)
  /\ run[k].resume = NoneV
  /\ LET payload == interrupt_payload(sub[k].values) IN
       /\ result' = [result EXCEPT ![k] = Returned(k, store[k].values, TRUE, payload)]
       /\ session' = [session EXCEPT
                         ![k].suspends = Append(@, payload.question_num),
                         ![k].snap = [parent |-> store[k].values, child |-> sub[k].values]]
  /\ run' = [run EXCEPT ![k] = [active |-> FALSE, resume |-> NoneV]]
  /\ turn' = [turn EXCEPT ![k] = Visit(k, "interrupt")]
  /\ UNCHANGED <<store, sub, quota, nextId, proc>>

\* answer_question evaluating without waiting at interrupt().
AnswerQuestion_speculative(k, outcome) ==
  /\ InSubgraph(k, "answer_question")
  /\ ~answer_question_invalid(sub[k].values)
  /\ LET values == answer_question(sub[k].values, run[k].resume, outcome) IN
       sub' = [sub EXCEPT ![k].values = values, ![k].next = TestEdge(test_router(values))]
  /\ run' = [run EXCEPT ![k].resume = NoneV]
  /\ turn' = [turn EXCEPT ![k] = Visit(k, "answer_question")]
  /\ session' = [session EXCEPT ![k].evaluations = @ + 1, ![k].outcome = outcome]
  /\ Fault(k, outcome = "raise")
  /\ UNCHANGED <<store, result, nextId, proc>>

\* answer_question re-entered by a resume: interrupt() returns the value, the
\* answer is evaluated and recorded, then test_router.
AnswerQuestion(k, outcome) ==
  /\ InSubgraph(k, "answer_question")
  /\ ~answer_question_invalid(sub[k].values)
  /\ run[k].resume # NoneV
  /\ LET values == answer_question(sub[k].values, run[k].resume, outcome) IN
       sub' = [sub EXCEPT ![k].values = values, ![k].next = TestEdge(test_router(values))]
  /\ run' = [run EXCEPT ![k].resume = NoneV]
  /\ turn' = [turn EXCEPT ![k] = Visit(k, "answer_question")]
  /\ session' = [session EXCEPT ![k].evaluations = @ + 1, ![k].outcome = outcome]
  /\ Fault(k, outcome = "raise")
  /\ UNCHANGED <<store, result, nextId, proc>>

\* finalize_test, then the subgraph's END: the parent's test_session node
\* completes with the subgraph's state and the edge leads back to "agent".
FinalizeTest(k) ==
  /\ InSubgraph(k, "finalize")
  /\ LET values == finalize_test(sub[k].values) IN
       /\ store' = [store EXCEPT ![k].values = SubgraphOutput(@, values),
                                 ![k].next = "agent"]
       /\ sub' = [sub EXCEPT ![k] = [active |-> FALSE, values |-> values, next |-> END]]
  /\ run' = [run EXCEPT ![k].resume = NoneV]
  /\ turn' = [turn EXCEPT ![k] = [Visit(k, "finalize") EXCEPT !.finalized = TRUE]]
  /\ session' = [session EXCEPT ![k].finalized = TRUE]
  /\ UNCHANGED <<result, quota, nextId, proc>>

\* The checkpoints a new process finds: SqliteSaver on storage/checkpoints.db,
\* parent and subgraph namespaces alike.
restart_store_lost(checkpoints) ==
  [k \in Keys |-> [exists |-> FALSE, values |-> EmptyState, next |-> END]]

restart_store(checkpoints) == checkpoints

restart_sub_lost(checkpoints) ==
  [k \in Keys |-> [checkpoints[k] EXCEPT !.active = FALSE]]

restart_sub(checkpoints) == checkpoints

\* The process stops and starts again: _graph is None until the next call
\* builds it, the requests being served fail, the checkpoint file stays.
Restart ==
  /\ proc.restarts > 0
  /\ proc' = [compiled |-> FALSE, restarts |-> proc.restarts - 1,
              requests |-> [r \in Requests |-> IdleRequest], last |-> NoWriter]
  /\ store' = restart_store(store)
  /\ sub' = restart_sub(sub)
  /\ run' = [k \in Keys |-> [active |-> FALSE, resume |-> NoneV]]
  /\ result' = [k \in Keys |-> IF run[k].active THEN ErrorResult ELSE result[k]]
  /\ UNCHANGED <<quota, nextId, turn, session>>

Next ==
  \/ \E k \in Keys, query \in Queries, asignatura \in Subjects \cup {NoneV} :
       CallAgent(k, query, asignatura)
  \/ \E k \in Keys, value \in Answers : CallAgentResume(k, value)
  \/ \E k \in Keys, shape \in CallShapes \cup {<<>>} : Think(k, shape)
  \/ \E k \in Keys : ThinkRaise(k)
  \/ \E k \in Keys, outcome \in RagOutcomes : RagSearch(k, outcome)
  \/ \E k \in Keys, outcome \in GuiaOutcomes : GetGuia(k, outcome)
  \/ \E k \in Keys, outcome \in ToolOutcomes : WebSearch(k, outcome)
  \/ \E k \in Keys, outcome \in GenOutcomes : InitializeTest(k, outcome)
  \/ \E k \in Keys : PresentQuestion(k)
  \/ \E k \in Keys : AnswerQuestionError(k)
  \/ \E k \in Keys : Interrupt(k)
  \/ \E k \in Keys, outcome \in EvalOutcomes : AnswerQuestion(k, outcome)
  \/ \E k \in Keys : FinalizeTest(k)

Spec == Init /\ [][Next]_vars

\* Two clients, each on its own key.
InitTwo == InitWith(PairBudget, 0)

SpecTwo == InitTwo /\ [][Next]_vars

\* One client and a process that may restart.
InitRestart ==
  InitWith([k \in Keys |-> IF k = "s1" THEN SmallBudget ELSE NoBudget], MaxRestarts)

NextRestart == Next \/ Restart

SpecRestart == InitRestart /\ [][NextRestart]_vars

\* The compiled graph runs the node that is next for the call it serves,
\* until the call returns.
NodeStep(k) ==
  \/ \E shape \in CallShapes \cup {<<>>} : Think(k, shape)
  \/ ThinkRaise(k)
  \/ \E outcome \in RagOutcomes : RagSearch(k, outcome)
  \/ \E outcome \in GuiaOutcomes : GetGuia(k, outcome)
  \/ \E outcome \in ToolOutcomes : WebSearch(k, outcome)
  \/ \E outcome \in GenOutcomes : InitializeTest(k, outcome)
  \/ PresentQuestion(k)
  \/ AnswerQuestionError(k)
  \/ Interrupt(k)
  \/ \E outcome \in EvalOutcomes : AnswerQuestion(k, outcome)
  \/ FinalizeTest(k)

\* One client; invoke does not return before the graph halts, so a call that
\* is being served keeps taking steps.  When the client calls is left open.
InitLive ==
  InitWith([k \in Keys |-> IF k = "s1" THEN SmallBudget ELSE NoBudget], 0)

SpecLive == InitLive /\ [][Next]_vars /\ \A k \in Keys : WF_vars(NodeStep(k))

\* ------------------------------------------- resumes served side by side
\* A write that leaves the checkpoint found in place.
checkpoint_put_stale(current, written) == current

\* SqliteSaver.put: the checkpoint a request writes becomes the latest one of
\* the thread, whatever checkpoint is there.
checkpoint_put(current, written) == written

Request(r) == proc.requests[r]

Running(r) == Request(r).phase = "running"

\* A request's step: its own state moves on; last names the request that
\* wrote the subgraph's and the parent's checkpoint last.
Moved(r, request, child, parent) ==
  proc' = [proc EXCEPT !.compiled = TRUE,
                       !.requests[r] = request,
                       !.last.child = IF child THEN r ELSE @,
                       !.last.parent = IF parent THEN r ELSE @]

\* call_agent_resume on a suspended key, up to the point where invoke has read
\* the thread's checkpoint.  call_agent_resume takes no lock and the one
\* GraphAgent is shared by all requests: a request served by another thread or
\* worker can read the same checkpoint before this one has written.
ResumeRead(r, k, value) ==
  /\ ~Running(r)
  /\ ~run[k].active
  /\ Suspended(k)
  /\ quota[k].resumes > 0
  /\ quota' = [quota EXCEPT ![k].resumes = @ - 1]
  /\ Moved(r, [phase |-> "running", key |-> k, value |-> value, resume |-> value,
               index |-> sub[k].values.current_question_index, answered |-> FALSE,
               parent |-> store[k].values, child |-> sub[k].values,
               next |-> sub[k].next], FALSE, FALSE)
  /\ session' = [session EXCEPT ![k].resumes = @ + 1]
  /\ UNCHANGED <<store, sub, run, result, nextId, turn>>

InRequest(r, node) == Running(r) /\ Request(r).next = node

WriteSub(k, values, next) ==
  sub' = [sub EXCEPT ![k] =
            checkpoint_put(@, [active |-> next # END, values |-> values, next |-> next])]

\* answer_question in a request: interrupt() returns the request's value.
ResumeAnswer(r, outcome) ==
  /\ InRequest(r, "answer_question")
  /\ ~answer_question_invalid(Request(r).child)
  /\ Request(r).resume # NoneV
  /\ LET k == Request(r).key
         values == answer_question(Request(r).child, Request(r).resume, outcome)
         next == TestEdge(test_router(values))
     IN /\ WriteSub(k, values, next)
        /\ Moved(r, [Request(r) EXCEPT !.child = values, !.next = next,
                                       !.resume = NoneV, !.answered = TRUE], TRUE, FALSE)
        /\ session' = [session EXCEPT ![k].evaluations = @ + 1, ![k].outcome = outcome]
        /\ Fault(k, outcome = "raise")
  /\ UNCHANGED <<store, run, result, nextId, turn>>

ResumeAnswerError(r) ==
  /\ InRequest(r, "answer_question")
  /\ answer_question_invalid(Request(r).child)
  /\ LET k == Request(r).key
         values == answer_question_error(Request(r).child)
         next == TestEdge(test_router(values))
     IN /\ WriteSub(k, values, next)
        /\ Moved(r, [Request(r) EXCEPT !.child = values, !.next = next,
                                       !.resume = NoneV], TRUE, FALSE)
  /\ UNCHANGED <<store, run, result, quota, nextId, turn, session>>

ResumePresent(r) ==
  /\ InRequest(r, "present_question")
  /\ LET k == Request(r).key
         values == present_question(Request(r).child)
     IN /\ WriteSub(k, values, "answer_question")
        /\ Moved(r, [Request(r) EXCEPT !.child = values, !.next = "answer_question"], TRUE, FALSE)
  /\ UNCHANGED <<store, run, result, quota, nextId, turn, session>>

\* The request halts at interrupt() and returns the payload of its question.
ResumeInterrupt(r) ==
  /\ InRequest(r, "answer_question")
  /\ ~answer_question_invalid(Request(r).child)
  /\ Request(r).resume = NoneV
  /\ LET k == Request(r).key
         payload == interrupt_payload(Request(r).child)
     IN /\ result' = [result EXCEPT ![k] = Returned(k, Request(r).parent, TRUE, payload)]
        /\ session' = [session EXCEPT ![k].suspends = Append(@, payload.question_num)]
  /\ Moved(r, [Request(r) EXCEPT !.phase = "returned"], FALSE, FALSE)
  /\ UNCHANGED <<store, sub, run, quota, nextId, turn>>

\* finalize_test in a request: the test_session node completes with the
\* request's subgraph state.
ResumeFinalize(r) ==
  /\ InRequest(r, "finalize")
  /\ LET k == Request(r).key
         values == finalize_test(Request(r).child)
         parent == SubgraphOutput(Request(r).parent, values)
     IN /\ WriteSub(k, values, END)
        /\ store' = [store EXCEPT ![k] =
             checkpoint_put(@, [exists |-> TRUE, values |-> parent, next |-> "agent"])]
        /\ Moved(r, [Request(r) EXCEPT !.child = values, !.parent = parent,
                                       !.next = "agent"], TRUE, TRUE)
        /\ session' = [session EXCEPT ![k].finalized = TRUE]
  /\ UNCHANGED <<run, result, quota, nextId, turn>>

\* think in a request, for a model that answers the summary in words.
ResumeThink(r) ==
  /\ InRequest(r, "agent")
  /\ LET k == Request(r).key
         response == AIMessage(Text("answer"), <<>>)
         parent == [Request(r).parent EXCEPT
                      !.messages = add_messages(@, think(Request(r).parent, response))]
     IN /\ store' = [store EXCEPT ![k] =
             checkpoint_put(@, [exists |-> TRUE, values |-> parent, next |-> END])]
        /\ result' = [result EXCEPT ![k] = Returned(k, parent, FALSE, NoInfo)]
        /\ Moved(r, [Request(r) EXCEPT !.parent = parent, !.next = END,
                                       !.phase = "returned"], FALSE, TRUE)
  /\ UNCHANGED <<sub, run, quota, nextId, turn, session>>

\* One client that starts a turn and sends its resumes without waiting for
\* the one before; every resume is a request of its own.
RaceBudget == [turns |-> 1, calls |-> 1, resumes |-> MaxResumes, faults |-> MaxFaults]

InitRace == InitWith([k \in Keys |-> IF k = "s1" THEN RaceBudget ELSE NoBudget], 0)

NextRace ==
  \/ \E k \in Keys, query \in Queries, asignatura \in Subjects \cup {NoneV} :
       CallAgent(k, query, asignatura)
  \/ \E k \in Keys, shape \in CallShapes \cup {<<>>} : Think(k, shape)
  \/ \E k \in Keys : ThinkRaise(k)
  \/ \E k \in Keys, outcome \in RagOutcomes : RagSearch(k, outcome)
  \/ \E k \in Keys, outcome \in GuiaOutcomes : GetGuia(k, outcome)
  \/ \E k \in Keys, outcome \in ToolOutcomes : WebSearch(k, outcome)
  \/ \E k \in Keys, outcome \in GenOutcomes : InitializeTest(k, outcome)
  \/ \E k \in Keys : PresentQuestion(k)
  \/ \E k \in Keys : AnswerQuestionError(k)
  \/ \E k \in Keys : Interrupt(k)
  \/ \E k \in Keys : FinalizeTest(k)
  \/ \E r \in Requests, k \in Keys, value \in Answers : ResumeRead(r, k, value)
  \/ \E r \in Requests, outcome \in EvalOutcomes : ResumeAnswer(r, outcome)
  \/ \E r \in Requests : ResumeAnswerError(r)
  \/ \E r \in Requests : ResumePresent(r)
  \/ \E r \in Requests : ResumeInterrupt(r)
  \/ \E r \in Requests : ResumeFinalize(r)
  \/ \E r \in Requests : ResumeThink(r)

SpecRace == InitRace /\ [][NextRace]_vars

\* ================================================================ claims
Returned_ok(k) == ~run[k].active /\ result[k].status = "ok"

Range(s) == {s[i] : i \in DOMAIN s}

\* The test-session fields a caller can observe for the key: those of the
\* suspended subgraph, else those the parent holds.
TestState(k) == IF sub[k].active THEN sub[k].values ELSE store[k].values

\* C1 (P2): after every call_agent / call_agent_resume on a key with an
\* initialized test session, len(user_answers) = len(feedback_history) =
\* len(scores) = current_question_index, and current_question_index <=
\* num_questions.  Stated as the claim states it; the safety branch of
\* answer_question breaks it.
C1_TestSessionInvariant ==
  \A k \in Keys :
    (Returned_ok(k) /\ TestState(k).has_test) =>
      LET t == TestState(k) IN
        /\ Len(t.user_answers) = t.current_question_index
        /\ Len(t.feedback_history) = t.current_question_index
        /\ Len(t.scores) = t.current_question_index
        /\ t.current_question_index <= t.num_questions

\* C2 (P1): the messages a key held before a call are a prefix of the
\* messages it holds at every point of the call and of the messages the call
\* returns; the next call starts from the list the previous one left.
C2_MessagesAppendOnly ==
  \A k \in Keys :
    /\ IsPrefix(turn[k].pre, store[k].values.messages)
    /\ result[k].status = "ok" => IsPrefix(turn[k].pre, result[k].messages)

C2_Witness ==
  \E k \in Keys :
    /\ Returned_ok(k)
    /\ turn[k].kind = "advance"
    /\ turn[k].no = 2
    /\ Len(turn[k].pre) >= 2
    /\ Len(result[k].messages) > Len(turn[k].pre)

\* A call served on a suspended session whose generator returned exactly the
\* num_questions >= 1 questions asked for.
OnFullSession(k) ==
  /\ turn[k].kind = "resume"
  /\ turn[k].at = "suspended"
  /\ turn[k].total >= 1
  /\ turn[k].generated = turn[k].total

StartedFullSession(k) ==
  /\ turn[k].kind = "advance"
  /\ session[k].started
  /\ session[k].turn_no = turn[k].no
  /\ "initialize_test" \in Range(turn[k].path)
  /\ session[k].num_questions >= 1
  /\ Len(session[k].questions) = session[k].num_questions

C3_Suspends(k) ==
  /\ (Returned_ok(k) /\ StartedFullSession(k)) =>
        /\ result[k].interrupted
        /\ result[k].interrupt_info.question_num = 1
        /\ result[k].interrupt_info.total_questions = session[k].num_questions
  /\ (Returned_ok(k) /\ OnFullSession(k) /\ turn[k].index + 1 < turn[k].total) =>
        /\ result[k].interrupted
        /\ result[k].interrupt_info.question_num = turn[k].index + 2
  /\ (session[k].started /\ Len(session[k].questions) = session[k].num_questions) =>
        /\ \A i \in DOMAIN session[k].suspends : session[k].suspends[i] = i
        /\ Len(session[k].suspends) <= session[k].num_questions
        /\ session[k].finalized =>
             Len(session[k].suspends) = session[k].num_questions

LastResume(k) == OnFullSession(k) /\ turn[k].index + 1 = turn[k].total

C4_QuestionsImmutable ==
  \A k \in Keys :
    /\ sub[k].active => sub[k].values.questions = session[k].questions
    /\ session[k].finalized => store[k].values.questions = session[k].questions

C4_Witness ==
  \E k \in Keys :
    /\ session[k].finalized
    /\ Len(session[k].questions) = 2
    /\ Len(store[k].values.user_answers) = 2

\* C5 (P3): call_agent_resume on a key with no pending interrupt (never
\* started, or its last turn ended) returns a defined error.  Stated as the
\* claim states it; the source returns the stored state as a normal result.
C5_ResumeNotSuspendedIsError ==
  \A k \in Keys :
    (~run[k].active /\ turn[k].kind = "resume" /\ turn[k].at \in {"new", "done"}) =>
      result[k].status = "error"

NodeOf(name) ==
  CASE name = "rag_search" -> "rag_search"
    [] name = "get_guia" -> "get_guia"
    [] name = "web_search" -> "web_search"
    [] name = "generate_test" -> "test_session"

\* C6 (P5): after think, the next node is the node of the first tool call of
\* the response, whatever other calls follow it; a response without tool call
\* ends the turn.
C6_Routing ==
  \A k \in Keys :
    (turn[k].path # <<>> /\ Last(turn[k].path) = "agent") =>
      LET m == Last(store[k].values.messages) IN
        /\ m.type = "ai"
        /\ m.tool_calls # <<>> => store[k].next = NodeOf(m.tool_calls[1].name)
        /\ m.tool_calls = <<>> => store[k].next = END /\ ~run[k].active

C6_Witness ==
  \E k \in Keys :
    /\ turn[k].path # <<>> /\ Last(turn[k].path) = "agent"
    /\ Len(Last(store[k].values.messages).tool_calls) = 2
    /\ Last(store[k].values.messages).tool_calls[1].name = "generate_test"
    /\ store[k].next = "test_session"

JustFinalized(k) == turn[k].path # <<>> /\ Last(turn[k].path) = "finalize"

\* C7: the summary of finalize_test reads score/total with score the number
\* of True entries of scores and total num_questions; the percentage shown is
\* 100 * score / num_questions to the nearest integer, 0 when num_questions
\* is 0; n correct answers out of n give n/n.
C7_Summary ==
  \A k \in Keys :
    JustFinalized(k) =>
      LET state == store[k].values
          m == Last(state.messages)
          score == Cardinality({i \in DOMAIN state.scores : state.scores[i]})
          total == state.num_questions
      IN /\ m.type = "tool"
         /\ m.content.kind = "summary"
         /\ m.content.a = score
         /\ m.content.b = total
         /\ total > 0 =>
              /\ 2 * (m.content.c * total - 100 * score) <= total
              /\ 2 * (100 * score - m.content.c * total) <= total
         /\ total = 0 => m.content.c = 0
         /\ (Len(state.scores) = total /\ score = Len(state.scores)) =>
              (m.content.a = total /\ m.content.b = total)

C7_Witness ==
  \E k \in Keys :
    /\ JustFinalized(k)
    /\ store[k].values.num_questions = 2
    /\ store[k].values.scores = <<TRUE, FALSE>>
    /\ Last(store[k].values.messages).content = Content("summary", "tema", 1, 2, 50)

\* C8: a finalized session has exactly one tool-result message carrying the
\* id of the generate_test call initialize_test read, and it is the summary
\* finalize_test appended last.
C8_SummaryCallId ==
  \A k \in Keys :
    LET messages == store[k].values.messages
        tagged == {i \in DOMAIN messages :
                     messages[i].type = "tool"
                     /\ messages[i].tool_call_id = session[k].call_id}
    IN /\ session[k].finalized =>
            /\ Cardinality(tagged) = 1
            /\ \A i \in tagged : messages[i].content.kind = "summary"
            /\ \E i \in DOMAIN messages :
                 /\ messages[i].tool_calls # <<>>
                 /\ messages[i].tool_calls[1].id = session[k].call_id
                 /\ messages[i].tool_calls[1].name = "generate_test"
       /\ JustFinalized(k) =>
            /\ Last(messages).type = "tool"
            /\ Last(messages).tool_call_id = session[k].call_id
            /\ Len(messages) = Len(sub[k].values.messages)

C8_Witness ==
  \E k \in Keys :
    /\ JustFinalized(k)
    /\ Len(store[k].values.user_answers) >= 1
    /\ \E i \in DOMAIN store[k].values.messages :
         /\ store[k].values.messages[i].tool_calls # <<>>
         /\ store[k].values.messages[i].tool_calls[1].id # session[k].call_id

\* C9: every execution of think appends exactly one message; a call_agent
\* turn in which the model answers at once returns the earlier messages, the
\* user's message and the assistant's answer, not interrupted.
C9_ThinkStep ==
  \A k \in Keys :
    (run[k].active /\ store[k].next = "agent" /\ store'[k] # store[k]) =>
      /\ Len(store'[k].values.messages) = Len(store[k].values.messages) + 1
      /\ IsPrefix(store[k].values.messages, store'[k].values.messages)
      /\ Last(store'[k].values.messages).type = "ai"

C9_PlainTurn ==
  \A k \in Keys :
    (Returned_ok(k) /\ turn[k].kind = "advance" /\ turn[k].path = << "agent" >>) =>
      LET n == Len(turn[k].pre) IN
        /\ Len(result[k].messages) = n + 2
        /\ result[k].messages[n + 1].type = "human"
        /\ result[k].messages[n + 2].type = "ai"
        /\ result[k].messages[n + 2].tool_calls = <<>>
        /\ ~result[k].interrupted

C9_ThinkAppendsOne == [] C9_PlainTurn /\ [][C9_ThinkStep]_vars

C9_Witness ==
  \E k \in Keys :
    /\ Returned_ok(k)
    /\ turn[k].kind = "advance"
    /\ turn[k].path = << "agent" >>
    /\ Len(turn[k].pre) >= 2
    /\ Len(result[k].messages) = Len(turn[k].pre) + 2

\* C10: when the collaborator of web_search, get_guia or rag_search fails,
\* the node appends one tool-result message tagged with the pending call's id
\* that carries the error text, and the edge leads back to think.  Stated as
\* the claim states it; the rag_search node drops the tool's error text.
C10_ToolFailureSurfaced ==
  \A k \in Keys :
    (turn[k].path # <<>> /\ turn[k].failed
       /\ Last(turn[k].path) \in {"web_search", "get_guia", "rag_search"}) =>
      LET messages == store[k].values.messages
          n == Len(messages)
      IN /\ n >= 2
         /\ messages[n].type = "tool"
         /\ messages[n - 1].tool_calls # <<>>
         /\ messages[n].tool_call_id = messages[n - 1].tool_calls[1].id
         /\ messages[n].content.kind = "error"
         /\ store[k].next = "agent"

\* The last step of the call being served on k ran answer_question on a
\* resume value (not its safety branch, not the halt at interrupt()).
JustAnswered(k) ==
  /\ sub[k].active
  /\ turn[k].path # <<>>
  /\ Last(turn[k].path) = "answer_question"
  /\ session[k].outcome # NoneV
  /\ sub[k].values.scores # <<>>
  /\ Last(sub[k].values.messages).content.kind = "feedback"

\* C11: evaluate_answer_with_llm fails open: when the model call raises, or
\* the response has no CORRECT: / FEEDBACK: lines, the answer is recorded as
\* correct with the generic fallback feedback.  Stated as the claim states
\* it; an unparseable response is recorded as incorrect with the raw response
\* as feedback.
C11_EvaluatorFailsOpen ==
  \A k \in Keys :
    (JustAnswered(k) /\ session[k].outcome \in {"raise", "neither"}) =>
      /\ Last(sub[k].values.scores) = TRUE
      /\ Last(sub[k].values.feedback_history) =
           fallback_feedback(Last(sub[k].values.user_answers))

\* A step of call_agent_resume on k.
ResumeCall(k) == quota'[k].resumes < quota[k].resumes

AfterSuspend(k) == result[k].status = "ok" /\ result[k].interrupted

\* C12: a restart between a suspend and the resume keeps the checkpoints;
\* the resume finds the key suspended with the parent and subgraph state of
\* the moment it suspended, whether or not the process restarted, and
\* re-enters answer_question at the same index.
C12_RestartStep ==
  /\ proc'.restarts # proc.restarts => (store' = store /\ sub' = sub)
  /\ \A k \in Keys :
       (ResumeCall(k) /\ AfterSuspend(k)) =>
         /\ Suspended(k)
         /\ store[k].values = session[k].snap.parent
         /\ sub[k].values = session[k].snap.child
         /\ run'[k] \in [active : {TRUE}, resume : Answers]
         /\ turn'[k].at = "suspended"
         /\ turn'[k].index = session[k].snap.child.current_question_index

C12_ResumeEnters ==
  \A k \in Keys :
    (turn[k].kind = "resume" /\ turn[k].at = "suspended" /\ turn[k].path # <<>>) =>
      /\ turn[k].path[1] = "answer_question"
      /\ IsPrefix(session[k].snap.child.messages, TestState(k).messages)
      /\ Len(turn[k].path) = 1 =>
           /\ sub[k].values.questions = session[k].snap.child.questions
           /\ sub[k].values.current_question_index = turn[k].index + 1
           /\ IsPrefix(session[k].snap.child.user_answers, sub[k].values.user_answers)
           /\ IsPrefix(session[k].snap.child.feedback_history, sub[k].values.feedback_history)
           /\ IsPrefix(session[k].snap.child.scores, sub[k].values.scores)

C12_ResumeAfterRestart == [] C12_ResumeEnters /\ [][C12_RestartStep]_vars

C12_Witness ==
  \E k \in Keys :
    /\ Returned_ok(k)
    /\ turn[k].kind = "resume"
    /\ turn[k].cold
    /\ turn[k].at = "suspended"
    /\ turn[k].index = 0
    /\ result[k].interrupted
    /\ result[k].interrupt_info.question_num = 2

\* A step of an operation on key a.
ActsOn(a) == quota'[a] # quota[a] \/ run'[a] # run[a] \/ turn'[a] # turn[a]

\* C13: a step of a call on one key leaves the parent and subgraph
\* checkpoints of every other key unchanged, in every interleaving.
C13_Step ==
  \A a, b \in Keys :
    (a # b /\ ActsOn(a)) => (store'[b] = store[b] /\ sub'[b] = sub[b])

C13_KeysIsolated == [][C13_Step]_vars

C13_Witness ==
  /\ Suspended("s2")
  /\ ~run["s2"].active
  /\ result["s2"].interrupted
  /\ Returned_ok("s1")
  /\ turn["s1"].kind = "resume"
  /\ store["s1"].values.messages # store["s2"].values.messages

\* A call on k has failed and nothing ran on k since.
Failed(k) == ~run[k].active /\ result[k].status = "error" /\ store[k].exists

\* C14 as stated: after a failure the checkpoint is the one written after
\* the last node that completed, so a call whose first node fails leaves the
\* key as it was before the call.
C14_Original ==
  \A k \in Keys :
    (Failed(k) /\ turn[k].kind = "advance" /\ turn[k].path = <<>>) =>
      store[k].values.messages = turn[k].pre

C14_FailStep ==
  \A k \in Keys :
    (run[k].active /\ result'[k].status = "error") =>
      /\ store'[k] = store[k]
      /\ sub'[k] = sub[k]
      /\ turn'[k] = turn[k]
      /\ ~run'[k].active

C14_FailedState ==
  \A k \in Keys :
    Failed(k) =>
      /\ store[k].next # END
      /\ turn[k].kind = "advance" =>
           /\ IsPrefix(Append(turn[k].pre, HumanMessage(Text("hola"))),
                       store[k].values.messages)
           /\ turn[k].path = <<>> =>
                store[k].values.messages = Append(turn[k].pre, HumanMessage(Text("hola")))

\* C14 as amended: a failing node or a crash fails the call, nothing is
\* retried, and the checkpoint stays the last one written before the node
\* started: the one after the last completed node of the call or, when the
\* call's first node fails, the one holding the input of the call.
C14_FailureKeepsCheckpoint == [] C14_FailedState /\ [][C14_FailStep]_vars

C14_Witness ==
  \E k \in Keys :
    /\ Failed(k)
    /\ turn[k].kind = "advance"
    /\ Len(turn[k].path) >= 2
    /\ Len(store[k].values.messages) >= Len(turn[k].pre) + 3
    /\ store[k].next = "agent"

\* C15: the generator runs once for a test session, in initialize_test; the
\* pending session keeps the list it stored, also when the session is resumed
\* after a restart.
C15_GeneratedOnce ==
  \A k \in Keys :
    /\ session[k].started => session[k].generations = 1
    /\ ~session[k].started => session[k].generations = 0
    /\ sub[k].active => sub[k].values.questions = session[k].questions
    /\ session[k].suspends # <<>> =>
         Len(session[k].questions) >= Len(session[k].suspends)

C15_Witness ==
  \E k \in Keys :
    /\ turn[k].kind = "resume"
    /\ turn[k].cold
    /\ turn[k].at = "suspended"
    /\ session[k].evaluations >= 1
    /\ session[k].generations = 1
    /\ Len(session[k].questions) = 2

QuestionTexts == Range(GenQuestions) \cup Range(GenFallback) \cup {"QF"}

\* C16: present_question persists no message, so no message of the
\* conversation holds a question's text.  Stated as the claim states it;
\* present_question returns the question's text as an AIMessage.
C16_NoQuestionInLog ==
  \A k \in Keys :
    \A m \in Range(TestState(k).messages) \cup Range(store[k].values.messages) :
      m.content.text \notin QuestionTexts

\* C17: the answer_question step of a resume with value v at index i appends
\* v, one feedback and one score, sets the index to i+1 and appends the
\* human message v followed by the feedback message.
C17_AnswerStep ==
  \A k \in Keys :
    (InSubgraph(k, "answer_question") /\ run[k].resume # NoneV /\ sub'[k] # sub[k]) =>
      LET old == sub[k].values
          new == sub'[k].values
          v == run[k].resume
          n == Len(old.messages)
      IN /\ new.user_answers = Append(old.user_answers, v)
         /\ Len(new.feedback_history) = Len(old.feedback_history) + 1
         /\ IsPrefix(old.feedback_history, new.feedback_history)
         /\ Len(new.scores) = Len(old.scores) + 1
         /\ IsPrefix(old.scores, new.scores)
         /\ new.current_question_index = old.current_question_index + 1
         /\ Len(new.messages) = n + 2
         /\ IsPrefix(old.messages, new.messages)
         /\ new.messages[n + 1] = HumanMessage(Text(v))
         /\ new.messages[n + 2].type = "ai"
         /\ new.messages[n + 2].content.kind = "feedback"
         /\ new.messages[n + 2].content.text = Last(new.feedback_history)
         /\ new.questions = old.questions

C17_Resumed ==
  \A k \in Keys :
    (turn[k].kind = "resume" /\ turn[k].at = "suspended" /\ Len(turn[k].path) = 1) =>
      /\ turn[k].path[1] = "answer_question"
      /\ sub[k].values.current_question_index = turn[k].index + 1
      /\ Len(sub[k].values.user_answers) = turn[k].index + 1

C18_PayloadWellFormed ==
  \A k \in Keys :
    (Returned_ok(k) /\ result[k].interrupted /\ sub[k].active) =>
      LET info == result[k].interrupt_info
          state == sub[k].values
      IN /\ info.action = "answer_question"
         /\ info.question_num = state.current_question_index + 1
         /\ info.total_questions = state.num_questions
         /\ info.question_text = state.questions[state.current_question_index + 1].question_text
         /\ 1 <= info.question_num
         /\ info.question_num <= info.total_questions

\* C19: test_router answers continue exactly when current_question_index <
\* num_questions, for every pair of values and after every answer_question.
C19_Router ==
  /\ \A i \in 0..(MaxQ + 1), n \in 0..(MaxQ + 1) :
       test_router([current_question_index |-> i, num_questions |-> n]) =
         IF i < n THEN "continue" ELSE "finalize"
  /\ \A k \in Keys :
       (sub[k].active /\ turn[k].path # <<>> /\ Last(turn[k].path) = "answer_question") =>
         LET state == sub[k].values IN
           /\ state.current_question_index < state.num_questions =>
                sub[k].next = "present_question"
           /\ state.current_question_index >= state.num_questions =>
                sub[k].next = "finalize"

C19_Witness ==
  \E k \in Keys :
    /\ sub[k].active
    /\ turn[k].path # <<>>
    /\ Last(turn[k].path) = "answer_question"
    /\ sub[k].values.current_question_index = 1
    /\ sub[k].values.num_questions = 2
    /\ sub[k].next = "present_question"

SessionError(m) ==
  m.type = "ai" /\ m.content = Error("Error en la sesion de preguntas. Finalizando...")

AnswerStep(k) == InSubgraph(k, "answer_question") /\ sub'[k] # sub[k]

C21_Step ==
  \A k \in Keys :
    AnswerStep(k) =>
      /\ \/ sub'[k].values.current_question_index > sub[k].values.current_question_index
         \/ sub'[k].next = "finalize"
      /\ sub'[k].next = "present_question" =>
           /\ sub'[k].values.current_question_index < sub'[k].values.num_questions
           /\ sub'[k].values.num_questions = sub[k].values.num_questions
      /\ sub'[k].next \in {"present_question", "finalize"}

\* Every suspend of k is answered by a call_agent_resume.
C21_Answered(k) ==
  Suspended(k) ~> (run[k].active /\ turn[k].kind = "resume" /\ turn[k].at = "suspended")

\* C21: every test session terminates.  Each answer_question step raises
\* current_question_index or leads to finalize, and continues only below
\* num_questions; and when every suspend is answered by a resume, a session
\* that was initialized reaches finalize_test.
C21_SessionTerminates ==
  /\ [][C21_Step]_vars
  /\ \A k \in Keys :
       C21_Answered(k) => (session[k].started ~> session[k].finalized)

C21_Witness ==
  \E k \in Keys :
    /\ session[k].finalized
    /\ session[k].num_questions = 2
    /\ session[k].resumes = 2
    /\ session[k].suspends = <<1, 2>>
    /\ JustFinalized(k)


ToolNodes == {"rag_search", "get_guia", "web_search"}

\* A step of a tool node or of finalize_test on k.
ReturnStep(k) ==
  /\ run[k].active
  /\ \/ store[k].next \in ToolNodes
     \/ InSubgraph(k, "finalize")
  /\ store'[k] # store[k]

C22_Step ==
  \A k \in Keys :
    ReturnStep(k) =>
      /\ store'[k].next = "agent"
      /\ run'[k].active
      /\ result'[k] = result[k]
      /\ Last(store'[k].values.messages).type = "tool"

C22_TurnEnd ==
  \A k \in Keys :
    /\ \A i \in DOMAIN turn[k].path :
         turn[k].path[i] \in ToolNodes \cup {"finalize"} =>
           /\ i < Len(turn[k].path) => turn[k].path[i + 1] = "agent"
           /\ i = Len(turn[k].path) => (run[k].active \/ result[k].status = "error")
    /\ (Returned_ok(k) /\ ~result[k].interrupted) =>
         /\ result[k].messages # <<>>
         /\ Last(result[k].messages).type = "ai"
         /\ Last(result[k].messages).tool_calls = <<>>
         /\ store[k].next = END
         /\ turn[k].path # <<>> => Last(turn[k].path) = "agent"

\* C22: after a tool node (rag_search, get_guia, web_search) and after
\* finalize_test the next node executed is think; no call returns directly
\* after one of them, and the last message of every call that returns not
\* suspended is the response think appended.
C22_ReturnsToThink == [] C22_TurnEnd /\ [][C22_Step]_vars

C22_Witness ==
  \E k \in Keys :
    /\ Returned_ok(k)
    /\ ~result[k].interrupted
    /\ turn[k].kind = "resume"
    /\ Len(turn[k].path) >= 5
    /\ turn[k].path[2] = "finalize"
    /\ turn[k].path[3] = "agent"
    /\ turn[k].path[4] \in ToolNodes
    /\ turn[k].path[5] = "agent"


\* A step in which evaluate_answer_with_llm is called on k.
Evaluates(k) == session'[k].evaluations = session[k].evaluations + 1

C23_Step ==
  \A k \in Keys :
    /\ Evaluates(k) =>
         /\ run[k].resume \in Answers
         /\ turn[k].kind = "resume"
         /\ turn[k].at = "suspended"
         /\ turn[k].path = <<>>
         /\ turn[k].index = sub[k].values.current_question_index
         /\ session[k].suspends # <<>>
         /\ Last(session[k].suspends) = sub[k].values.current_question_index + 1
         /\ sub'[k].values.user_answers = Append(sub[k].values.user_answers, run[k].resume)
    /\ session'[k].evaluations # session[k].evaluations =>
         (Evaluates(k) \/ (session'[k].evaluations = 0 /\ sub'[k].values.user_answers = <<>>))

C23_Count ==
  \A k \in Keys :
    /\ sub[k].active => session[k].evaluations = Len(sub[k].values.user_answers)
    /\ session[k].finalized =>
         session[k].evaluations = Len(store[k].values.user_answers)
    /\ session[k].evaluations <= session[k].resumes
    /\ session[k].evaluations <= Len(session[k].suspends)

MetaOf(m) ==
  IF m.type = "tool" /\ m.content.kind = "chunks"
  THEN IF m.content.b = 1 THEN << "{}" >> ELSE SubSeq(RagMeta, 1, m.content.a)
  ELSE <<>>

IsQuery(m) == m.type = "human" /\ m.content \in {Text(q) : q \in Queries}

\* The metadata retrieved since the last call_agent, in order.
RECURSIVE Retrieved(_)
Retrieved(messages) ==
  IF messages = <<>> \/ IsQuery(Last(messages)) THEN <<>>
  ELSE Retrieved(SubSeq(messages, 1, Len(messages) - 1)) \o MetaOf(Last(messages))

C24_Step ==
  \A k \in Keys :
    /\ quota'[k].turns < quota[k].turns => store'[k].values.context = <<>>
    /\ (quota'[k].turns = quota[k].turns /\ store[k].exists) =>
         IsPrefix(store[k].values.context, store'[k].values.context)
    /\ (run[k].active /\ store[k].next = "rag_search" /\ store'[k] # store[k]) =>
         store'[k].values.context =
           store[k].values.context \o MetaOf(Last(store'[k].values.messages))

C24_Holds ==
  \A k \in Keys :
    store[k].exists => store[k].values.context = Retrieved(store[k].values.messages)

\* C24: call_agent sets context to empty whatever it held; within a turn
\* context only grows, each rag_search execution appending the metadata of
\* every result it returned, so the state holds the metadata of all results
\* retrieved since the turn started.
C24_ContextPerTurn == [] C24_Holds /\ [][C24_Step]_vars

C24_Witness ==
  \E k \in Keys :
    /\ Returned_ok(k)
    /\ turn[k].kind = "advance"
    /\ Retrieved(turn[k].pre) # <<>>
    /\ store[k].values.context = << "meta1" >>
    /\ Len(turn[k].path) = 3


\* C25: the get_guia node passes the session's asignatura to the tool only
\* when the pending tool call gave none; a subject given in the tool call's
\* arguments is the one the tool is invoked with.  Stated as the claim states
\* it; the node overwrites the argument with the session's asignatura.
C25_ExplicitSubjectWins ==
  \A k \in Keys :
    (turn[k].path # <<>> /\ Last(turn[k].path) = "get_guia") =>
      LET messages == store[k].values.messages
          n == Len(messages)
          given == messages[n - 1].tool_calls[1].args.asignatura
          used == IF messages[n].content.kind = "text" THEN NoneV
                  ELSE messages[n].content.text
      IN messages[n].content.kind # "error" =>
           used = IF given # NoneV THEN given ELSE store[k].values.asignatura

\* The tool-result messages that carry the id of a tool call.
ResultsOf(messages, id) ==
  {i \in DOMAIN messages : messages[i].type = "tool" /\ messages[i].tool_call_id = id}

\* C26: at the end of every turn that is not suspended, every tool-result
\* message carries the id of a tool call of an earlier assistant message, and
\* every tool call that was routed to a node (the first of its message) has
\* exactly one tool-result message.  Stated as the claim states it; a
\* call_agent on a suspended key leaves the generate_test call unanswered.
C26_ToolResultsMatch ==
  \A k \in Keys :
    (Returned_ok(k) /\ ~result[k].interrupted) =>
      LET messages == result[k].messages IN
        /\ \A i \in DOMAIN messages :
             messages[i].type = "tool" =>
               \E j \in 1..(i - 1) :
                 /\ messages[j].type = "ai"
                 /\ \E c \in DOMAIN messages[j].tool_calls :
                      messages[j].tool_calls[c].id = messages[i].tool_call_id
        /\ \A j \in DOMAIN messages :
             messages[j].tool_calls # <<>> =>
               Cardinality(ResultsOf(messages, messages[j].tool_calls[1].id)) = 1


\* Two requests that read the same suspend of the same key and both ran
\* answer_question on it.
SameSuspend(a, b) ==
  /\ a # b
  /\ Request(a).phase # "idle" /\ Request(b).phase # "idle"
  /\ Request(a).key = Request(b).key
  /\ Request(a).index = Request(b).index
  /\ Request(a).answered /\ Request(b).answered
  /\ Len(Request(a).child.questions) > Request(a).index
  /\ Len(Request(b).child.questions) > Request(b).index

\* Each checkpoint of the key is the state of the request that wrote it last.
C27_Remains ==
  /\ proc.last.child # NoneV =>
       LET q == Request(proc.last.child) IN
         /\ sub[q.key].values = q.child
         /\ sub[q.key].next =
              IF q.next \in {"present_question", "answer_question", "finalize"}
              THEN q.next ELSE END
  /\ proc.last.parent # NoneV =>
       LET q == Request(proc.last.parent) IN
         /\ store[q.key].values = q.parent
         /\ store[q.key].next = q.next

Recorded(a, b, kept) ==
  LET i == Request(b).index IN
    /\ Len(kept) >= i + 1
    /\ kept[i + 1] = Request(b).value
    /\ SubSeq(kept, 1, i) = SubSeq(Request(a).child.user_answers, 1, i)
    /\ Request(a).child.user_answers[i + 1] = Request(a).value
    /\ session[Request(b).key].evaluations > Len(kept)

C27_Lost ==
  \A a, b \in Requests :
    SameSuspend(a, b) =>
      /\ proc.last.child = b => Recorded(a, b, sub[Request(b).key].values.user_answers)
      /\ proc.last.parent = b => Recorded(a, b, store[Request(b).key].values.user_answers)

\* C27: nothing serializes the calls on a key.  Two call_agent_resume
\* requests can read the same suspended checkpoint and both run
\* answer_question at its current_question_index; the checkpoint that remains
\* is that of the request that wrote last, and it records one answer for that
\* question, so the other request's answer is in no checkpoint position.
C27_ConcurrentResumesRace == C27_Remains /\ C27_Lost

C27_Witness ==
  /\ SameSuspend("a", "b")
  /\ Request("a").phase = "returned"
  /\ Request("b").phase = "returned"
  /\ Request("a").value = "A"
  /\ Request("b").value = "B"
  /\ Request("a").index = 0
  /\ proc.last.child = "b"
  /\ Suspended("s1")
  /\ sub["s1"].values.user_answers = << "B" >>
  /\ session["s1"].evaluations = 2


\* The summaries of finished sessions among the messages.
Summaries(messages) ==
  {i \in DOMAIN messages : messages[i].type = "tool" /\ messages[i].content.kind = "summary"}

\* A step of initialize_test on k.
InitializeStep(k) ==
  /\ run[k].active
  /\ store[k].next = "test_session"
  /\ ~sub[k].active
  /\ sub'[k].active

C28_Step ==
  \A k \in Keys :
    InitializeStep(k) =>
      LET new == sub'[k].values
          args == Last(store[k].values.messages).tool_calls[1].args
      IN /\ new.current_question_index = 0
         /\ new.user_answers = <<>>
         /\ new.feedback_history = <<>>
         /\ new.scores = <<>>
         /\ new.num_questions = args.num_questions
         /\ new.questions = session'[k].questions
         /\ session'[k].evaluations = 0
         /\ \A i \in DOMAIN new.questions :
              new.questions[i].question_text \in
                Range(generate_test_tool(args.num_questions, Raise))
                \cup Range(generate_test_tool(args.num_questions, NoJson))
                \cup Range(generate_test_tool(args.num_questions, MaxQ))

C28_Counts ==
  \A k \in Keys :
    /\ sub[k].active =>
         /\ Len(sub[k].values.user_answers) = session[k].evaluations
         /\ Len(sub[k].values.feedback_history) = session[k].evaluations
         /\ Len(sub[k].values.scores) = session[k].evaluations
    /\ JustFinalized(k) =>
         /\ Len(store[k].values.scores) = session[k].evaluations
         /\ Len(store[k].values.user_answers) = session[k].evaluations
         /\ Last(store[k].values.messages).content.a = CountTrue(store[k].values.scores)
         /\ Last(store[k].values.messages).content.a <= session[k].evaluations
         /\ Last(store[k].values.messages).content.b = session[k].num_questions

\* C28: when generate_test is routed again on a key whose earlier session
\* was finalized, initialize_test sets current_question_index to 0, empties
\* user_answers, feedback_history and scores and stores the new questions;
\* the lists and the summary of the new session count its own answers only.
C28_NewSessionStartsClean == [] C28_Counts /\ [][C28_Step]_vars

C28_Witness ==
  \E k \in Keys :
    /\ JustFinalized(k)
    /\ Cardinality(Summaries(store[k].values.messages)) = 2
    /\ \E i \in Summaries(store[k].values.messages) :
         store[k].values.messages[i].content.a = 1
    /\ store[k].values.scores = << FALSE >>
    /\ Last(store[k].values.messages).content.a = 0
    /\ Last(store[k].values.messages).content.b = 1


\* C29: in every finalize_test, 0 <= score <= total with score the number of
\* True entries of scores and total num_questions, and the percentage shown
\* lies between 0 and 100.  Stated as the claim states it; with the generator's
\* one-question fallback a session of num_questions 0 can score 1.
C29_ScoreWithinTotal ==
  \A k \in Keys :
    JustFinalized(k) =>
      LET summary == Last(store[k].values.messages).content IN
        /\ summary.a = CountTrue(store[k].values.scores)
        /\ summary.b = store[k].values.num_questions
        /\ 0 <= summary.a
        /\ summary.a <= summary.b
        /\ 0 <= summary.c
        /\ summary.c <= 100


SessionFields ==
  {"topic", "num_questions", "difficulty", "questions", "current_question_index",
   "user_answers", "feedback_history", "scores", "has_test"}

\* A step of call_agent on k.
AdvanceCall(k) == quota'[k].turns < quota[k].turns

C30_Step ==
  \A k \in Keys :
    (AdvanceCall(k) /\ Suspended(k)) =>
      /\ \A f \in SessionFields : store'[k].values[f] = store[k].values[f]
      /\ \A f \in SessionFields : sub'[k].values[f] = sub[k].values[f]
      /\ Len(store'[k].values.messages) = Len(store[k].values.messages) + 1
      /\ IsPrefix(store[k].values.messages, store'[k].values.messages)
      /\ IsQuery(Last(store'[k].values.messages))
      /\ store'[k].values.context = <<>>
      /\ store'[k].values.asignatura \in Subjects \cup {NoneV}

C30_Turn ==
  \A k \in Keys :
    (turn[k].kind = "advance" /\ turn[k].at = "suspended"
       /\ "initialize_test" \notin Range(turn[k].path)) =>
      /\ \A f \in SessionFields : store[k].values[f] = session[k].snap.parent[f]
      /\ \A f \in SessionFields : sub[k].values[f] = session[k].snap.child[f]
      /\ IsPrefix(Append(session[k].snap.parent.messages, HumanMessage(Text("hola"))),
                  store[k].values.messages)

====
